---------------------------- MODULE Spec2Model ----------------------------
(***************************************************************************)
(* A model of src/app.py: the greedy task scheduler (run_scheduler) and    *)
(* the task restructurer (breakdown_task) with the CSV task store.         *)
(*                                                                         *)
(* Encoding.  Hours are whole numbers.  A pandas missing number is NaN, a  *)
(* missing timestamp is NaT; both are integers outside every range used,   *)
(* so that every column keeps one type.  A date string is a TLA+ string; a *)
(* timestamp is the position of its day in Calendar.  A task name is a     *)
(* sequence of tokens; "tag in str(name)" is membership of the tag token.  *)
(* A request dict or a DataFrame row is a function from column names.      *)
(***************************************************************************)
EXTENDS Integers, Sequences, FiniteSets, TLC

(***************************************************************************)
(* Bounds of the model.                                                    *)
(***************************************************************************)
MaxTasks == 2
MaxWindows == 2
MaxRuns == 2
MaxOps == 2

\* the day run_scheduler reads from the clock (line 118)
Today == "2024-01-02"

(***************************************************************************)
(* pandas values.                                                          *)
(***************************************************************************)
NaN == -99999
NaT == -88888
NoName == <<"nan">>

notnull(x) == x # NaN /\ x # NaT

\* a > b, a <= b on floats: every comparison with NaN is false
Gt(a, b) == a # NaN /\ b # NaN /\ a > b
Le(a, b) == a # NaN /\ b # NaN /\ a <= b

\* Python's a - b and a + b
Sub(a, b) == IF a = NaN \/ b = NaN THEN NaN ELSE a - b
Add(a, b) == IF a = NaN \/ b = NaN THEN NaN ELSE a + b

\* Python's builtin min(a, b): a unless b < a
PyMin(a, b) == IF a # NaN /\ b # NaN /\ b < a THEN b ELSE a

\* Series.sum(): missing values are skipped
RECURSIVE SeriesSum(_)
SeriesSum(s) ==
    IF s = <<>> THEN 0
    ELSE (IF Head(s) = NaN THEN 0 ELSE Head(s)) + SeriesSum(Tail(s))

(***************************************************************************)
(* Dates.  Calendar lists the ISO strings of consecutive days; to_datetime *)
(* parses a string to the timestamp of its day (NaT when it is no date, as *)
(* errors='coerce' does), strftime formats a timestamp back.               *)
(***************************************************************************)
Calendar == << "2024-01-01", "2024-01-02", "2024-01-03", "2024-01-04",
               "2024-01-05", "2024-01-06", "2024-01-07", "2024-01-08",
               "2024-01-09", "2024-01-10", "2024-01-11", "2024-01-12" >>

to_datetime(s) ==
    IF \E d \in 1..Len(Calendar) : Calendar[d] = s
    THEN CHOOSE d \in 1..Len(Calendar) : Calendar[d] = s
    ELSE NaT

strftime(ts) == Calendar[ts]

(***************************************************************************)
(* Task names and the exemption tags.                                      *)
(***************************************************************************)
ExemptTags == {"[MULTI-SESSION]", "[FIXED EVENT]", "[PENDING PLANNING]"}

\* the planning marker is not among the tags
HasTagButPlanning(name) ==
    \E i \in 1..Len(name) : name[i] \in {"[MULTI-SESSION]", "[FIXED EVENT]"}

HasTag(name) == \E i \in 1..Len(name) : name[i] \in ExemptTags

LargeThreshold == 6
NoDueDays == 9999
ImportanceWeight == 5

(***************************************************************************)
(* DataFrames.  pd.DataFrame(list of dicts): the columns are the union of  *)
(* the keys, a missing cell is filled with the column's missing value, and *)
(* the row labels 0..n-1 are kept in the field "idx".                      *)
(***************************************************************************)
Columns(dicts) == UNION {DOMAIN dicts[i] : i \in 1..Len(dicts)}

Missing(c) == IF c \in {"Task", "Project"} THEN NoName
              ELSE IF c \in {"Due Date", "Date", "Event Type"} THEN "null"
              ELSE NaN

DataFrame(dicts) ==
    [i \in 1..Len(dicts) |->
        [c \in Columns(dicts) \cup {"idx"} |->
            IF c = "idx" THEN i - 1
            ELSE IF c \in DOMAIN dicts[i] THEN dicts[i][c]
            ELSE Missing(c)]]

\* df.empty: no rows or no columns
Empty(dicts) == Len(dicts) = 0 \/ Columns(dicts) = {}

\* the column c of a frame, as a sequence
Series(df, c) == [i \in 1..Len(df) |-> df[i][c]]

\* df[c] = to_datetime(df[c]) when the column exists
ConvertDates(df, cols, c) ==
    IF c \in cols
    THEN [i \in 1..Len(df) |-> [df[i] EXCEPT ![c] = to_datetime(df[i][c])]]
    ELSE df

(***************************************************************************)
(* sort_values: ascending, missing keys last, ties in their former order   *)
(* (the sort on several keys is stable; the sort on one key is, on frames  *)
(* of this size, an insertion sort).  Every frame sorted here carries the  *)
(* key columns: a ranked request has the Complexity column.                *)
(***************************************************************************)
KeyLT(a, b) == notnull(a) /\ (~notnull(b) \/ a < b)
KeyEQ(a, b) == (notnull(a) /\ notnull(b) /\ a = b) \/ (~notnull(a) /\ ~notnull(b))

\* row x sorts strictly before row y on the key columns by (in order)
RECURSIVE RowLT(_, _, _)
RowLT(x, y, by) ==
    IF by = <<>> THEN FALSE
    ELSE \/ KeyLT(x[Head(by)], y[Head(by)])
         \/ KeyEQ(x[Head(by)], y[Head(by)]) /\ RowLT(x, y, Tail(by))

\* x inserted before the rows it ties with
RECURSIVE InsertBeforeTies(_, _, _)
InsertBeforeTies(x, s, by) ==
    IF s = <<>> THEN <<x>>
    ELSE IF ~RowLT(Head(s), x, by) THEN <<x>> \o s
    ELSE <<Head(s)>> \o InsertBeforeTies(x, Tail(s), by)

\* x inserted into the sorted s, after every row that does not sort after it
RECURSIVE InsertSorted(_, _, _)
InsertSorted(x, s, by) ==
    IF s = <<>> THEN <<x>>
    ELSE IF RowLT(x, Head(s), by) THEN <<x>> \o s
    ELSE <<Head(s)>> \o InsertSorted(x, Tail(s), by)

RECURSIVE SortFrom(_, _, _)
SortFrom(df, acc, by) ==
    IF df = <<>> THEN acc
    ELSE SortFrom(Tail(df), InsertSorted(Head(df), acc, by), by)

sort_values(df, by) == SortFrom(df, <<>>, by)

(***************************************************************************)
(* The ranker: calc_priority and the sort of the tasks.                    *)
(***************************************************************************)
\* importance raises the score
calc_priority_importance_added(row, today) ==
    LET days_until_due == IF notnull(row["Due Date"])
                          THEN row["Due Date"] - today
                          ELSE NoDueDays
    IN  Add(days_until_due * 1,
            IF row["Importance"] = NaN THEN NaN
            ELSE row["Importance"] * ImportanceWeight)

calc_priority(row, today) ==
    LET days_until_due == IF notnull(row["Due Date"])
                          THEN row["Due Date"] - today
                          ELSE NoDueDays
    IN  Sub(days_until_due * 1,
            IF row["Importance"] = NaN THEN NaN
            ELSE row["Importance"] * ImportanceWeight)

RankerRuns(cols) == "Due Date" \in cols /\ "Importance" \in cols

WithPriority(df, today) ==
    [i \in 1..Len(df) |->
        [c \in DOMAIN df[i] \cup {"Priority Score"} |->
            IF c = "Priority Score" THEN calc_priority(df[i], today)
            ELSE df[i][c]]]

Prioritize(df, cols, today) ==
    IF RankerRuns(cols)
    THEN sort_values(WithPriority(df, today), <<"Priority Score", "Complexity">>)
    ELSE df

(***************************************************************************)
(* The large-task detector.                                                *)
(***************************************************************************)
HasTaskColumns(cols) == "Estimated Time" \in cols /\ "Task" \in cols

\* the threshold itself counts as large
IsLargeInclusive(row) ==
    ~Gt(LargeThreshold, row["Estimated Time"]) /\ ~HasTag(row["Task"])

IsLarge(row) == Gt(row["Estimated Time"], LargeThreshold) /\ ~HasTag(row["Task"])

LargeRecord(row, cols) ==
    [id |-> row["idx"], Task |-> row["Task"],
     EstimatedTime |-> row["Estimated Time"],
     DueDate |-> IF "Due Date" \in cols THEN row["Due Date"] ELSE NaT]

LargeWarning(row) == [kind |-> "exceeds 6 hours", Task |-> row["Task"]]

RECURSIVE SelectRows(_, _)
SelectRows(df, keep) ==
    IF df = <<>> THEN <<>>
    ELSE (IF Head(df)["idx"] \in keep THEN <<Head(df)>> ELSE <<>>)
         \o SelectRows(Tail(df), keep)

\* the rows the detector flags, in frame order
DetectLarge(df, cols) ==
    IF HasTaskColumns(cols)
    THEN SelectRows(df, {df[i]["idx"] : i \in {j \in 1..Len(df) : IsLarge(df[j])}})
    ELSE <<>>


(***************************************************************************)
(* The daily summary: groupby('Date') of the consumed windows, then every  *)
(* allocation added to the first entry of its date.                        *)
(***************************************************************************)
RECURSIVE SortedSeq(_)
SortedSeq(S) ==
    IF S = {} THEN <<>>
    ELSE LET m == CHOOSE x \in S : \A y \in S : x <= y
         IN  <<m>> \o SortedSeq(S \ {m})

RECURSIVE HoursOn(_, _)
HoursOn(df, date) ==
    IF df = <<>> THEN <<>>
    ELSE (IF Head(df)["Date"] = date THEN <<Head(df)["Available Hours"]>> ELSE <<>>)
         \o HoursOn(Tail(df), date)

\* one entry for each window, windows of one date not merged
GroupSummaryPerWindow(df) ==
    [k \in 1..Len(df) |->
        [Date |-> strftime(df[k]["Date"]),
         TotalAvailable |-> df[k]["Available Hours"],
         TotalScheduled |-> 0]]

GroupSummary(df) ==
    LET dates == SortedSeq({df[i]["Date"] : i \in {j \in 1..Len(df) : notnull(df[j]["Date"])}})
    IN  [k \in 1..Len(dates) |->
            [Date |-> strftime(dates[k]),
             TotalAvailable |-> SeriesSum(HoursOn(df, dates[k])),
             TotalScheduled |-> 0]]

\* the position of the first entry of the date, 0 when there is none
FirstEntry(summary, date) ==
    IF \E k \in 1..Len(summary) : summary[k].Date = date
    THEN CHOOSE k \in 1..Len(summary) :
            /\ summary[k].Date = date
            /\ \A j \in 1..(k - 1) : summary[j].Date # date
    ELSE 0

RECURSIVE AddScheduled(_, _)
AddScheduled(summary, allocs) ==
    IF allocs = <<>> THEN summary
    ELSE LET k == FirstEntry(summary, Head(allocs).Date)
             next == IF k = 0 THEN summary
                     ELSE [summary EXCEPT ![k].TotalScheduled =
                                Add(@, Head(allocs).AllocatedHours)]
         IN  AddScheduled(next, Tail(allocs))

DailySummary(df, allocs) == AddScheduled(GroupSummary(df), allocs)

(***************************************************************************)
(* State.  data and today are the request and the clock; the other         *)
(* scheduler variables are run_scheduler's locals and its position (pc, t, *)
(* w).  alloc_log and warn_log record, for each allocation and each        *)
(* warning, the row label of the task (and window) it was emitted for.     *)
(* run and prev_response keep the response of the previous run of the same *)
(* request.  tasks_file is data/tasks.csv; status is breakdown_task's last *)
(* response, request its last request, file_before the file as that call   *)
(* found it, and ops the number of calls so far.  calls holds, for each of  *)
(* the calls of breakdown_task that run at the same time, its position,    *)
(* its request and its locals.                                             *)
(***************************************************************************)
VARIABLES data, today, pc, tasks_df, tasks_cols, working_free_time_df,
          total_free_time, total_task_time, t, w, task_time_remaining,
          scheduled_tasks, warnings, large_tasks, response,
          alloc_log, warn_log, run, prev_response,
          tasks_file, status, request, file_before, ops, calls

sched_vars == <<data, today, pc, tasks_df, tasks_cols, working_free_time_df,
                total_free_time, total_task_time, t, w, task_time_remaining,
                scheduled_tasks, warnings, large_tasks, response,
                alloc_log, warn_log, run, prev_response>>
store_vars == <<tasks_file, status, request, file_before, ops, calls>>
vars == <<sched_vars, store_vars>>

NoResponse == [none |-> TRUE]

\* run_scheduler's fresh result lists (lines 77-79)
FreshScheduled == <<>>
LeftoverWarnings == warnings
FreshWarnings == <<>>
FreshLarge == <<>>

EarlyExit ==
    [scheduledTasks |-> <<>>,
     warnings |-> << [kind |-> "No tasks or free time available for scheduling."] >>,
     largeTasks |-> <<>>]

\* the exit only when both lists are empty
ExitsEarlyBothEmpty(tasks, freeTime) == Empty(tasks) /\ Empty(freeTime)

\* if tasks_df.empty or free_time_df.empty (line 82)
ExitsEarly(tasks, freeTime) == Empty(tasks) \/ Empty(freeTime)

\* the position of the first task the allocator does not skip, from k on
NextTask(df, cols, k) == IF HasTaskColumns(cols) THEN k ELSE Len(df) + 1

\* the task loop moves to position k of df
EnterTask(df, cols, k) ==
    LET k2 == NextTask(df, cols, k)
    IN  /\ t' = k2
        /\ w' = 1
        /\ task_time_remaining' = IF k2 <= Len(df) THEN df[k2]["Estimated Time"] ELSE 0
        /\ pc' = IF k2 <= Len(df) THEN "walk" ELSE "summary"

(***************************************************************************)
(* run_scheduler up to the allocation loop: parsing, the early exit, the   *)
(* window sort, the totals, the detector and the ranker.                   *)
(***************************************************************************)
run_scheduler ==
    /\ pc = "request"
    /\ LET tcols == Columns(data.tasks)
           fcols == Columns(data.freeTime)
           tdf == IF Empty(data.tasks) THEN DataFrame(data.tasks)
                  ELSE ConvertDates(DataFrame(data.tasks), tcols, "Due Date")
           fdf == IF Empty(data.freeTime) THEN DataFrame(data.freeTime)
                  ELSE ConvertDates(DataFrame(data.freeTime), fcols, "Date")
       IN  IF ExitsEarly(data.tasks, data.freeTime)
           THEN /\ response' = EarlyExit
                /\ pc' = "done"
                /\ scheduled_tasks' = FreshScheduled
                /\ warnings' = FreshWarnings
                /\ large_tasks' = FreshLarge
                /\ alloc_log' = <<>>
                /\ warn_log' = <<>>
                /\ tasks_df' = tdf
                /\ tasks_cols' = tcols
                /\ working_free_time_df' = <<>>
                /\ total_free_time' = 0
                /\ total_task_time' = 0
                /\ t' = 0 /\ w' = 0 /\ task_time_remaining' = 0
           ELSE LET large == DetectLarge(tdf, tcols)
                    ranked == Prioritize(tdf, tcols, today)
                IN  /\ response' = NoResponse
                    /\ scheduled_tasks' = FreshScheduled
                    /\ alloc_log' = <<>>
                    /\ working_free_time_df' = sort_values(fdf, <<"Date">>)
                    /\ total_free_time' = SeriesSum(Series(fdf, "Available Hours"))
                    /\ total_task_time' =
                          IF "Estimated Time" \in tcols
                          THEN SeriesSum(Series(tdf, "Estimated Time")) ELSE 0
                    /\ large_tasks' = FreshLarge \o
                          [i \in 1..Len(large) |-> LargeRecord(large[i], tcols)]
                    /\ warnings' = FreshWarnings \o
                          [i \in 1..Len(large) |-> LargeWarning(large[i])]
                    /\ warn_log' = [i \in 1..Len(large) |-> large[i]["idx"]]
                    /\ tasks_df' = ranked
                    /\ tasks_cols' = tcols
                    /\ EnterTask(ranked, tcols, 1)
    /\ UNCHANGED <<data, today, run, prev_response, store_vars>>

(***************************************************************************)
(* One iteration of the window walk of the current task (lines 137-153).   *)
(***************************************************************************)
due_date(task, cols) == IF "Due Date" \in cols THEN task["Due Date"] ELSE NaT

\* the walk without the due-date cutoff
WalkIgnoringDue(task, cols, remaining, df, k) ==
    /\ k <= Len(df)
    /\ ~Le(remaining, 0)

\* the walk ends at the first window that has no hours left
WalkStopsAtEmptyWindow(task, cols, remaining, df, k) ==
    /\ k <= Len(df)
    /\ ~Le(remaining, 0)
    /\ ~(notnull(due_date(task, cols)) /\ df[k]["Date"] > due_date(task, cols))
    /\ Gt(df[k]["Available Hours"], 0)

\* the walk of the task goes on at window position k
WalkGoesOn(task, cols, remaining, df, k) ==
    /\ k <= Len(df)
    /\ ~Le(remaining, 0)
    /\ ~(notnull(due_date(task, cols)) /\ df[k]["Date"] > due_date(task, cols))

\* the whole window, whatever the task still needs
allocated_time_whole_window(remaining, available) == available

\* all the task still needs, whatever the window holds
allocated_time_all_remaining(remaining, available) == remaining

allocated_time(remaining, available) == PyMin(remaining, available)

\* the window is left as it was
ConsumeNothing(available, hours) == available

\* working_free_time_df.at[f_idx, 'Available Hours'] -= allocated_time
Consume(available, hours) == Sub(available, hours)

\* the allocation reports all the hours of the task
AllocationOfWholeTask(task, window, hours) ==
    [Task |-> task["Task"], Date |-> strftime(window["Date"]),
     AllocatedHours |-> task["Estimated Time"]]

Allocation(task, window, hours) ==
    [Task |-> task["Task"], Date |-> strftime(window["Date"]), AllocatedHours |-> hours]

AllocateStep ==
    /\ pc = "walk"
    /\ WalkGoesOn(tasks_df[t], tasks_cols, task_time_remaining, working_free_time_df, w)
    /\ LET task == tasks_df[t]
           window == working_free_time_df[w]
           available_hours == window["Available Hours"]
           hours == allocated_time(task_time_remaining, available_hours)
       IN  IF Gt(available_hours, 0)
           THEN /\ scheduled_tasks' = Append(scheduled_tasks, Allocation(task, window, hours))
                /\ alloc_log' = Append(alloc_log, [task |-> task["idx"], window |-> window["idx"]])
                /\ working_free_time_df' =
                      [working_free_time_df EXCEPT ![w]["Available Hours"] = Consume(@, hours)]
                /\ task_time_remaining' = Sub(task_time_remaining, hours)
           ELSE UNCHANGED <<scheduled_tasks, alloc_log, working_free_time_df,
                            task_time_remaining>>
    /\ w' = w + 1
    /\ UNCHANGED <<data, today, pc, tasks_df, tasks_cols, total_free_time,
                   total_task_time, t, warnings, large_tasks, response, warn_log,
                   run, prev_response, store_vars>>

(***************************************************************************)
(* The allocation loop as a function: the walk of one task from window     *)
(* position k, and the walks of a list of tasks one after the other.  Each *)
(* entry of the result is [task, window, hours], the labels of the task    *)
(* row and the window row and the hours allocated.                         *)
(***************************************************************************)
RECURSIVE WalkFrom(_, _, _, _, _)
WalkFrom(task, cols, remaining, df, k) ==
    IF ~WalkGoesOn(task, cols, remaining, df, k)
    THEN [df |-> df, allocs |-> <<>>]
    ELSE LET available_hours == df[k]["Available Hours"]
             hours == allocated_time(remaining, available_hours)
         IN  IF Gt(available_hours, 0)
             THEN LET rest == WalkFrom(task, cols, Sub(remaining, hours),
                                       [df EXCEPT ![k]["Available Hours"] = Consume(@, hours)],
                                       k + 1)
                  IN  [df |-> rest.df,
                       allocs |-> << [task |-> task["idx"], window |-> df[k]["idx"],
                                      hours |-> hours] >> \o rest.allocs]
             ELSE WalkFrom(task, cols, remaining, df, k + 1)

RECURSIVE AllocateAll(_, _, _)
AllocateAll(tasks, cols, df) ==
    IF tasks = <<>> \/ ~HasTaskColumns(cols) THEN <<>>
    ELSE LET first == WalkFrom(Head(tasks), cols, Head(tasks)["Estimated Time"], df, 1)
         IN  first.allocs \o AllocateAll(Tail(tasks), cols, first.df)

(***************************************************************************)
(* The end of a task's walk: the shortfall check (lines 155-160), then the *)
(* next task.                                                              *)
(***************************************************************************)
\* a shortfall also when nothing is left over
ShortfallInclusive(task, cols, remaining) ==
    notnull(due_date(task, cols)) /\ ~Gt(0, remaining)

Shortfall(task, cols, remaining) ==
    notnull(due_date(task, cols)) /\ Gt(remaining, 0)

HandleWarning(task, cols, remaining) ==
    [kind |-> "HANDLE", Task |-> task["Task"],
     Due |-> strftime(due_date(task, cols)),
     needs |-> task["Estimated Time"],
     scheduled |-> Sub(task["Estimated Time"], remaining)]

FinishTask ==
    /\ pc = "walk"
    /\ ~WalkGoesOn(tasks_df[t], tasks_cols, task_time_remaining, working_free_time_df, w)
    /\ IF Shortfall(tasks_df[t], tasks_cols, task_time_remaining)
       THEN /\ warnings' = Append(warnings,
                              HandleWarning(tasks_df[t], tasks_cols, task_time_remaining))
            /\ warn_log' = Append(warn_log, tasks_df[t]["idx"])
       ELSE UNCHANGED <<warnings, warn_log>>
    /\ EnterTask(tasks_df, tasks_cols, t + 1)
    /\ UNCHANGED <<data, today, tasks_df, tasks_cols, working_free_time_df,
                   total_free_time, total_task_time, scheduled_tasks, large_tasks,
                   response, alloc_log, run, prev_response, store_vars>>

(***************************************************************************)
(* The daily summary and the response (lines 162-190).                     *)
(***************************************************************************)
Summarize ==
    /\ pc = "summary"
    /\ response' =
          [totalFreeTime |-> total_free_time,
           totalTaskTime |-> total_task_time,
           scheduledTasks |-> scheduled_tasks,
           dailySummary |-> DailySummary(working_free_time_df, scheduled_tasks),
           warnings |-> warnings,
           largeTasks |-> large_tasks]
    /\ pc' = "done"
    /\ UNCHANGED <<data, today, tasks_df, tasks_cols, working_free_time_df,
                   total_free_time, total_task_time, t, w, task_time_remaining,
                   scheduled_tasks, warnings, large_tasks, alloc_log, warn_log,
                   run, prev_response, store_vars>>

\* the caller posts the same request again
Resubmit ==
    /\ pc = "done"
    /\ run < MaxRuns
    /\ run' = run + 1
    /\ prev_response' = response
    /\ pc' = "request"
    /\ UNCHANGED <<data, today, tasks_df, tasks_cols, working_free_time_df,
                   total_free_time, total_task_time, t, w, task_time_remaining,
                   scheduled_tasks, warnings, large_tasks, response, alloc_log,
                   warn_log, store_vars>>

(***************************************************************************)
(* Requests.                                                               *)
(***************************************************************************)
SeqsUpTo(S, n) == UNION {[1..k -> S] : k \in 0..n}

TaskDict(name, hours, due, importance, complexity) ==
    ("Task" :> name) @@ ("Estimated Time" :> hours) @@ ("Due Date" :> due)
    @@ ("Importance" :> importance) @@ ("Complexity" :> complexity)

WindowDict(date, hours) == ("Date" :> date) @@ ("Available Hours" :> hours)

Without(d, c) == [k \in DOMAIN d \ {c} |-> d[k]]

NoFile == [exists |-> FALSE]
NoStatus == [status |-> "none"]
NoRequest == [taskId |-> 0, approach |-> "none", params |-> <<>>]

\* the calls of breakdown_task that may run at the same time
Invocations == {"first", "second"}
NoFrame == [cols |-> {}, rows |-> <<>>]
NoCall == [pc |-> "none", request |-> NoRequest, tasks_df |-> NoFrame,
           response |-> NoStatus, saves |-> FALSE]
NoCalls == [p \in Invocations |-> NoCall]

InitWith(TaskPool, WindowPool) ==
    /\ data \in [tasks : SeqsUpTo(TaskPool, MaxTasks),
                 freeTime : SeqsUpTo(WindowPool, MaxWindows)]
    /\ today = to_datetime(Today)
    /\ pc = "request"
    /\ tasks_df = <<>> /\ tasks_cols = {} /\ working_free_time_df = <<>>
    /\ total_free_time = 0 /\ total_task_time = 0
    /\ t = 0 /\ w = 0 /\ task_time_remaining = 0
    /\ scheduled_tasks = <<>> /\ warnings = <<>> /\ large_tasks = <<>>
    /\ response = NoResponse
    /\ alloc_log = <<>> /\ warn_log = <<>>
    /\ run = 1 /\ prev_response = NoResponse
    /\ tasks_file = NoFile /\ status = NoStatus
    /\ request = NoRequest /\ file_before = NoFile /\ ops = 0
    /\ calls = NoCalls


(***************************************************************************)
(* Specifications of the scheduler.  Each schedules every request of at    *)
(* most MaxTasks tasks and MaxWindows windows drawn from its pools.        *)
(*   Spec      hours and due dates of the tasks against dated windows      *)
(*   SpecPrio  due dates, importance and complexity (the ranker)           *)
(*   SpecLarge names and hours (the detector, the early exit)              *)
(*   SpecTwice a request scheduled MaxRuns times                           *)
(*   SpecGaps  tasks that lack the duration or the name                    *)
(*   SpecTies  tasks that tie in the ranking, ranked requests and others   *)
(***************************************************************************)
AllocTasks ==
    { TaskDict(<<"A">>, h, d, 1, 1) :
        h \in {0, 2, 5}, d \in {"null", "2024-01-01", "2024-01-03"} }

AllocWindows ==
    { WindowDict(d, h) : d \in {"2024-01-02", "2024-01-04"}, h \in {0, 3} }

PrioTasks ==
    LET full == { TaskDict(<<"A">>, 4, d, i, c) :
                    d \in {"null", "2024-01-04", "2024-01-12"}, i \in {0, 1}, c \in {1, 2} }
    IN  full \cup { Without(x, "Due Date") : x \in full }

PrioWindows == { WindowDict("2024-01-02", 3), WindowDict("2024-01-03", 3) }

LargeTasks ==
    { TaskDict(n, h, x.due, x.importance, 1) :
        n \in { <<"A">>, <<"A", "[MULTI-SESSION]">>, <<"A", "[FIXED EVENT]">>,
                <<"A", "[PENDING PLANNING]">> },
        h \in {6, 7},
        x \in { [due |-> "null", importance |-> 0],
                [due |-> "2024-01-01", importance |-> 2] } }

LargeWindows == { WindowDict("2024-01-03", 4), WindowDict("2024-01-03", 8) }

TwiceTasks ==
    { TaskDict(<<"A">>, h, d, i, 1) :
        h \in {2, 7}, d \in {"next week", "2024-01-03"}, i \in {0, 1} }

TwiceWindows == { WindowDict(d, 3) : d \in {"2024-01-02", "2024-01-04"} }

\* tasks with every field, without a duration, without a name
GapTasks ==
    LET full == { TaskDict(<<"A">>, h, d, 1, 1) :
                    h \in {2, 7}, d \in {"null", "2024-01-03"} }
    IN  full \cup { Without(x, "Estimated Time") : x \in full }
             \cup { Without(x, "Task") : x \in full }

GapWindows == { WindowDict("2024-01-02", 3), WindowDict("2024-01-04", 3) }

\* tasks that tie on the score (due in 2 days with importance 0, due in 7
\* days with importance 1) and on the complexity, and tasks without due date
TieTasks ==
    LET full == { TaskDict(<<"A">>, h, x.due, x.importance, 1) :
                    h \in {2, 4},
                    x \in { [due |-> "2024-01-04", importance |-> 0],
                            [due |-> "2024-01-09", importance |-> 1],
                            [due |-> "null", importance |-> 0] } }
    IN  full \cup { Without(x, "Due Date") : x \in full }

TieWindows == { WindowDict("2024-01-03", 3) }

Init == InitWith(AllocTasks, AllocWindows)
InitTies == InitWith(TieTasks, TieWindows)
InitGaps == InitWith(GapTasks, GapWindows)
InitPrio == InitWith(PrioTasks, PrioWindows)
InitLarge == InitWith(LargeTasks, LargeWindows)
InitTwice == InitWith(TwiceTasks, TwiceWindows)

Next == run_scheduler \/ AllocateStep \/ FinishTask \/ Summarize
NextTwice == run_scheduler \/ AllocateStep \/ FinishTask \/ Summarize \/ Resubmit

Spec == Init /\ [][Next]_vars
SpecPrio == InitPrio /\ [][Next]_vars
SpecLarge == InitLarge /\ [][Next]_vars
SpecTwice == InitTwice /\ [][NextTwice]_vars
SpecGaps == InitGaps /\ [][Next]_vars
SpecTies == InitTies /\ [][Next]_vars

(***************************************************************************)
(* The task store.  data/tasks.csv is its columns and its rows (without    *)
(* row labels); read_csv labels the rows 0..n-1 and reads an empty text    *)
(* cell as missing.                                                        *)
(***************************************************************************)
DefaultColumns ==
    {"Project", "Task", "Estimated Time", "Due Date", "Importance", "Complexity"}

CsvCell(c, v) == IF c \in {"Task", "Project"} /\ v = <<>> THEN NoName ELSE v

WithIdx(row, cols, label) ==
    [c \in cols \cup {"idx"} |->
        IF c = "idx" THEN label
        ELSE IF c \in DOMAIN row THEN row[c]
        ELSE Missing(c)]

StripIdx(row) == [c \in DOMAIN row \ {"idx"} |-> row[c]]

read_csv(file) ==
    [cols |-> file.columns,
     rows |-> [i \in 1..Len(file.rows) |->
                 [c \in file.columns \cup {"idx"} |->
                     IF c = "idx" THEN i - 1 ELSE CsvCell(c, file.rows[i][c])]]]

to_csv(df) ==
    [exists |-> TRUE, columns |-> df.cols,
     rows |-> [i \in 1..Len(df.rows) |-> StripIdx(df.rows[i])]]

\* load_data: the file read, or created with the default columns and no rows
FileAfterLoad(file) ==
    IF file.exists THEN file
    ELSE [exists |-> TRUE, columns |-> DefaultColumns, rows |-> <<>>]

load_data(file) == read_csv(FileAfterLoad(file))

(***************************************************************************)
(* DataFrame operations of breakdown_task.                                 *)
(***************************************************************************)
Labels(df) == {df.rows[i]["idx"] : i \in 1..Len(df.rows)}

\* df.iloc[n]: positions from the end for n < 0
InIlocRange(df, n) == -Len(df.rows) <= n /\ n < Len(df.rows)
iloc(df, n) == IF n >= 0 THEN df.rows[n + 1] ELSE df.rows[Len(df.rows) + n + 1]

\* df.at[label, c] = v: the cell of the row of that label, or, when no row has
\* the label, a new last row of that label with only this cell set
set_at(df, label, c, v) ==
    IF label \in Labels(df)
    THEN [df EXCEPT !.rows =
            [i \in 1..Len(df.rows) |->
                IF df.rows[i]["idx"] = label
                THEN [df.rows[i] EXCEPT ![c] = v]
                ELSE df.rows[i]]]
    ELSE [df EXCEPT !.rows =
            Append(df.rows, [WithIdx(<<>>, df.cols, label) EXCEPT ![c] = v])]

\* df[c] = None when the column is not there
add_column(df, c) ==
    IF c \in df.cols THEN df
    ELSE [cols |-> df.cols \cup {c},
          rows |-> [i \in 1..Len(df.rows) |->
                      WithIdx(df.rows[i], df.cols \cup {c}, df.rows[i]["idx"])]]

\* no row is dropped
drop_nothing(df, label) == df

\* df.drop(label), for a label that is there
drop(df, label) ==
    [df EXCEPT !.rows = SelectRows(df.rows, Labels(df) \ {label})]

\* pd.concat([df, new rows], ignore_index=True)
concat(df, new_rows) ==
    LET all == df.rows \o new_rows
        cols == df.cols \cup UNION {DOMAIN new_rows[i] \ {"idx"} : i \in 1..Len(new_rows)}
    IN  [cols |-> cols,
         rows |-> [i \in 1..Len(all) |-> WithIdx(StripIdx(all[i]), cols, i - 1)]]

\* dict(task) with some fields replaced
Replaced(task, changes) ==
    [c \in DOMAIN task |-> IF c \in DOMAIN changes THEN changes[c] ELSE task[c]]

Get(params, key, default) == IF key \in DOMAIN params THEN params[key] ELSE default

(***************************************************************************)
(* breakdown_task on the loaded frame: its response, the frame it ends     *)
(* with and whether it saves.  An exception pandas raises ends the call    *)
(* with a server error and nothing saved.                                  *)
(***************************************************************************)
Success == [status |-> "success"]
NotFound == [status |-> "error", message |-> "Task not found"]
NoSubtasks == [status |-> "error", message |-> "No subtasks provided"]
InvalidApproach == [status |-> "error", message |-> "Invalid approach"]
IndexError == [status |-> "exception", message |-> "IndexError"]
KeyError == [status |-> "exception", message |-> "KeyError"]

Failed(resp, df) == [response |-> resp, df |-> df, saved |-> FALSE]
Saved(df) == [response |-> Success, df |-> df, saved |-> TRUE]

Planning(df, task_id, task, params) ==
    LET task_name == task["Task"]
        new_task ==
            ("Project" :> task["Project"])
            @@ ("Task" :> Get(params, "taskName", <<"Plan breakdown of:">> \o task_name))
            @@ ("Estimated Time" :> Get(params, "hours", 1))
            @@ ("Due Date" :> Get(params, "date", "null"))
            @@ ("Importance" :> 4) @@ ("Complexity" :> 2)
        renamed == set_at(df, task_id, "Task", task_name \o <<"[PENDING PLANNING]">>)
    IN  Saved(concat(renamed, <<new_task>>))

Breakdown(df, task_id, task, params) ==
    LET subtasks == Get(params, "subtasks", <<>>)
        new_tasks ==
            [i \in 1..Len(subtasks) |->
                Replaced(task, ("Task" :> subtasks[i].name)
                               @@ ("Estimated Time" :> subtasks[i].hours))]
    IN  IF subtasks = <<>> THEN Failed(NoSubtasks, df)
        ELSE IF task_id \notin Labels(df) THEN Failed(KeyError, df)
        ELSE Saved(concat(drop(df, task_id), new_tasks))

Focus(df, task_id, task, params) ==
    LET task_name == task["Task"]
        session_length == Get(params, "sessionLength", 2)
        num_sessions == Get(params, "numSessions", 0)
        update_name == Get(params, "updateName", TRUE)
        new_name == Get(params, "newName", task_name \o <<"[MULTI-SESSION]">>)
        named == IF update_name THEN set_at(df, task_id, "Task", new_name) ELSE df
        widened == add_column(add_column(named, "Focus Sessions"), "Session Length")
    IN  Saved(set_at(set_at(widened, task_id, "Focus Sessions", num_sessions),
                     task_id, "Session Length", session_length))

\* the exploration hours less the task's hours
remaining_hours_reversed(hours, exploration_hours) == Sub(exploration_hours, hours)

\* hours - exploration_hours (line 291)
remaining_hours(hours, exploration_hours) == Sub(hours, exploration_hours)

Iterative(df, task_id, task, params) ==
    LET task_name == task["Task"]
        hours == task["Estimated Time"]
        exploration_hours == Get(params, "explorationHours", 2)
        exploration_task ==
            Replaced(task, ("Project" :> <<"Iterative:">> \o task_name)
                           @@ ("Task" :> <<"Initial exploration:">> \o task_name)
                           @@ ("Estimated Time" :> exploration_hours))
        remaining_task ==
            Replaced(task, ("Project" :> <<"Iterative:">> \o task_name)
                           @@ ("Task" :> task_name \o <<"[REMAINING WORK]">>)
                           @@ ("Estimated Time" :> remaining_hours(hours, exploration_hours)))
    IN  IF task_id \notin Labels(df) THEN Failed(KeyError, df)
        ELSE Saved(concat(drop(df, task_id), <<exploration_task, remaining_task>>))

Fixed(df, task_id, task, params) ==
    LET task_name == task["Task"]
        update_name == Get(params, "updateName", TRUE)
        new_name == Get(params, "newName", task_name \o <<"[FIXED EVENT]">>)
        named == IF update_name THEN set_at(df, task_id, "Task", new_name) ELSE df
    IN  Saved(set_at(add_column(named, "Event Type"), task_id, "Event Type",
                     "Fixed Duration"))

\* if task_id >= len(tasks_df) (line 204)
TaskMissing(df, task_id) == task_id >= Len(df.rows)

Restructure(df, task_id, approach, params) ==
    IF TaskMissing(df, task_id) THEN Failed(NotFound, df)
    ELSE IF ~InIlocRange(df, task_id) THEN Failed(IndexError, df)
    ELSE LET task == iloc(df, task_id)
         IN  CASE approach = "planning" -> Planning(df, task_id, task, params)
               [] approach = "breakdown" -> Breakdown(df, task_id, task, params)
               [] approach = "focus" -> Focus(df, task_id, task, params)
               [] approach = "iterative" -> Iterative(df, task_id, task, params)
               [] approach = "fixed" -> Fixed(df, task_id, task, params)
               [] OTHER -> Failed(InvalidApproach, df)

(***************************************************************************)
(* breakdown_task: load, restructure, save.                                *)
(***************************************************************************)
Approaches == {"planning", "breakdown", "focus", "iterative", "fixed", "merge"}

ParamsPool(approach) ==
    CASE approach = "planning" ->
            { <<>>, ("taskName" :> <<"P">>) @@ ("date" :> "2024-01-05") @@ ("hours" :> 2) }
      [] approach = "breakdown" ->
            { <<>>, ("subtasks" :> <<>>),
              ("subtasks" :> << [name |-> <<"S1">>, hours |-> 2],
                                [name |-> <<"S2">>, hours |-> 3] >>) }
      [] approach = "focus" ->
            { <<>>, ("updateName" :> FALSE),
              ("newName" :> <<"X">>) @@ ("numSessions" :> 3) @@ ("sessionLength" :> 1) }
      [] approach = "iterative" -> { <<>>, ("explorationHours" :> 9) }
      [] approach = "fixed" -> { <<>>, ("updateName" :> FALSE), ("newName" :> <<"X">>) }
      [] OTHER -> { <<>> }

TaskIds == (0 - 2)..MaxTasks

\* one call: the request read, the list loaded, restructured and saved
BreakdownRequest(task_id, approach, params) ==
    LET result == Restructure(load_data(tasks_file), task_id, approach, params)
    IN  /\ request' = [taskId |-> task_id, approach |-> approach, params |-> params]
        /\ file_before' = tasks_file
        /\ status' = result.response
        /\ tasks_file' = IF result.saved THEN to_csv(result.df)
                         ELSE FileAfterLoad(tasks_file)
        /\ UNCHANGED calls

breakdown_task ==
    /\ ops < MaxOps
    /\ \E task_id \in TaskIds, approach \in Approaches :
       \E params \in ParamsPool(approach) :
          BreakdownRequest(task_id, approach, params)
    /\ ops' = ops + 1
    /\ UNCHANGED sched_vars

StoredTasks ==
    { ("Project" :> <<"Work">>) @@ TaskDict(<<"A">>, 8, "2024-01-05", 1, 1),
      ("Project" :> <<"Home">>) @@ TaskDict(<<"B">>, 3, "null", 2, 2) }

StoredFiles ==
    {NoFile} \cup
    { [exists |-> TRUE, columns |-> DefaultColumns, rows |-> rows] :
        rows \in SeqsUpTo(StoredTasks, MaxTasks) }

InitWithStore(files) ==
    /\ data = [tasks |-> <<>>, freeTime |-> <<>>]
    /\ today = to_datetime(Today)
    /\ pc = "request"
    /\ tasks_df = <<>> /\ tasks_cols = {} /\ working_free_time_df = <<>>
    /\ total_free_time = 0 /\ total_task_time = 0
    /\ t = 0 /\ w = 0 /\ task_time_remaining = 0
    /\ scheduled_tasks = <<>> /\ warnings = <<>> /\ large_tasks = <<>>
    /\ response = NoResponse
    /\ alloc_log = <<>> /\ warn_log = <<>>
    /\ run = 1 /\ prev_response = NoResponse
    /\ tasks_file \in files /\ status = NoStatus
    /\ request = NoRequest /\ file_before = NoFile /\ ops = 0
    /\ calls = NoCalls

NextStore == breakdown_task

SpecStore == InitWithStore(StoredFiles) /\ [][NextStore]_vars

(***************************************************************************)
(* Calls one after the other that split a task or add one, with the hours  *)
(* the caller gives: in range or not, negative or not.                     *)
(*   SpecHours  a stored list and up to MaxOps such calls                  *)
(***************************************************************************)
HoursApproaches == {"planning", "breakdown", "iterative"}

HoursParams(approach) ==
    CASE approach = "planning" -> { <<>>, ("hours" :> -1) }
      [] approach = "breakdown" ->
            { ("subtasks" :> << [name |-> <<"S1">>, hours |-> 2],
                                [name |-> <<"S2">>, hours |-> 0] >>),
              ("subtasks" :> << [name |-> <<"S1">>, hours |-> -1] >>) }
      [] approach = "iterative" ->
            { <<>>, ("explorationHours" :> 3), ("explorationHours" :> 9) }
      [] OTHER -> { <<>> }

HoursTaskIds == (0 - 1)..(MaxTasks - 1)

breakdown_task_hours ==
    /\ ops < MaxOps
    /\ \E task_id \in HoursTaskIds, approach \in HoursApproaches :
       \E params \in HoursParams(approach) :
          BreakdownRequest(task_id, approach, params)
    /\ ops' = ops + 1
    /\ UNCHANGED sched_vars

NextHours == breakdown_task_hours

SpecHours == InitWithStore(StoredFiles) /\ [][NextHours]_vars

(***************************************************************************)
(* The stored list restructured and then scheduled: one call of            *)
(* breakdown_task on the stored list, then get_tasks hands the list to the *)
(* client, which posts it to run_scheduler with its windows.               *)
(*   SpecFlow  a stored list, at most one restructuring, then a schedule   *)
(***************************************************************************)
\* tasks_df.to_dict(orient='records')
to_dict(df) == [i \in 1..Len(df.rows) |-> StripIdx(df.rows[i])]

FlowWindows == { WindowDict("2024-01-03", 4) }

restructure_stored ==
    /\ pc = "idle"
    /\ ops = 0
    /\ breakdown_task

get_tasks ==
    /\ pc = "idle"
    /\ \E freeTime \in SeqsUpTo(FlowWindows, MaxWindows) :
          data' = [tasks |-> to_dict(load_data(tasks_file)), freeTime |-> freeTime]
    /\ tasks_file' = FileAfterLoad(tasks_file)
    /\ pc' = "request"
    /\ UNCHANGED <<today, tasks_df, tasks_cols, working_free_time_df,
                   total_free_time, total_task_time, t, w, task_time_remaining,
                   scheduled_tasks, warnings, large_tasks, response, alloc_log,
                   warn_log, run, prev_response, status, request, file_before, ops,
                   calls>>

InitFlow ==
    /\ data = [tasks |-> <<>>, freeTime |-> <<>>]
    /\ today = to_datetime(Today)
    /\ pc = "idle"
    /\ tasks_df = <<>> /\ tasks_cols = {} /\ working_free_time_df = <<>>
    /\ total_free_time = 0 /\ total_task_time = 0
    /\ t = 0 /\ w = 0 /\ task_time_remaining = 0
    /\ scheduled_tasks = <<>> /\ warnings = <<>> /\ large_tasks = <<>>
    /\ response = NoResponse
    /\ alloc_log = <<>> /\ warn_log = <<>>
    /\ run = 1 /\ prev_response = NoResponse
    /\ tasks_file \in StoredFiles /\ status = NoStatus
    /\ request = NoRequest /\ file_before = NoFile /\ ops = 0
    /\ calls = NoCalls

NextFlow ==
    restructure_stored \/ get_tasks \/ run_scheduler \/ AllocateStep
        \/ FinishTask \/ Summarize

SpecFlow == InitFlow /\ [][NextFlow]_vars

(***************************************************************************)
(* Calls at the same time.  The server runs each request in its own thread *)
(* or worker, so two calls of breakdown_task may take their steps in any   *)
(* order: each loads the file (line 201), restructures the frame it loaded *)
(* (lines 204-317) and saves it (line 320).  run_scheduler is run once     *)
(* before the calls start and once more while they run.                    *)
(*   SpecRace  a stored list, two calls of breakdown_task, a schedule      *)
(***************************************************************************)
RaceFile ==
    [exists |-> TRUE, columns |-> DefaultColumns,
     rows |-> << ("Project" :> <<"Work">>) @@ TaskDict(<<"A">>, 8, "2024-01-05", 1, 1),
                 ("Project" :> <<"Home">>) @@ TaskDict(<<"B">>, 3, "null", 2, 2) >>]

RaceRequests ==
    [taskId : 0..2, approach : {"planning", "focus", "iterative", "fixed"},
     params : {<<>>}]

RaceTasks == { TaskDict(<<"A">>, 7, "2024-01-03", 1, 1) }
RaceWindows == { WindowDict("2024-01-02", 3) }

\* line 201: the call loads the file
breakdown_load(p) ==
    /\ calls[p].pc = "start"
    /\ run > 1
    /\ calls' = [calls EXCEPT ![p].pc = "loaded",
                              ![p].tasks_df = load_data(tasks_file)]
    /\ tasks_file' = FileAfterLoad(tasks_file)
    /\ UNCHANGED <<sched_vars, status, request, file_before, ops>>

\* lines 204-317: the call restructures the frame it loaded
breakdown_transform(p) ==
    /\ calls[p].pc = "loaded"
    /\ LET req == calls[p].request
           result == Restructure(calls[p].tasks_df, req.taskId, req.approach, req.params)
       IN  calls' = [calls EXCEPT ![p].pc = "transformed",
                                  ![p].tasks_df = result.df,
                                  ![p].response = result.response,
                                  ![p].saves = result.saved]
    /\ UNCHANGED <<sched_vars, tasks_file, status, request, file_before, ops>>

\* lines 320-322: the call saves its frame, if it got that far, and answers
breakdown_save(p) ==
    /\ calls[p].pc = "transformed"
    /\ calls' = [calls EXCEPT ![p].pc = "done"]
    /\ tasks_file' = IF calls[p].saves THEN to_csv(calls[p].tasks_df) ELSE tasks_file
    /\ UNCHANGED <<sched_vars, status, request, file_before, ops>>

Load == \E p \in Invocations : breakdown_load(p)
Transform == \E p \in Invocations : breakdown_transform(p)
Save == \E p \in Invocations : breakdown_save(p)

InitRace ==
    /\ data \in [tasks : SeqsUpTo(RaceTasks, 1) \ {<<>>},
                 freeTime : SeqsUpTo(RaceWindows, 1) \ {<<>>}]
    /\ today = to_datetime(Today)
    /\ pc = "request"
    /\ tasks_df = <<>> /\ tasks_cols = {} /\ working_free_time_df = <<>>
    /\ total_free_time = 0 /\ total_task_time = 0
    /\ t = 0 /\ w = 0 /\ task_time_remaining = 0
    /\ scheduled_tasks = <<>> /\ warnings = <<>> /\ large_tasks = <<>>
    /\ response = NoResponse
    /\ alloc_log = <<>> /\ warn_log = <<>>
    /\ run = 1 /\ prev_response = NoResponse
    /\ tasks_file = RaceFile /\ status = NoStatus
    /\ request = NoRequest /\ file_before = NoFile /\ ops = 0
    /\ calls \in [Invocations ->
                    {[NoCall EXCEPT !.pc = "start", !.request = r] : r \in RaceRequests}]

NextRace ==
    run_scheduler \/ AllocateStep \/ FinishTask \/ Summarize \/ Resubmit
        \/ Load \/ Transform \/ Save

SpecRace == InitRace /\ [][NextRace]_vars

(***************************************************************************)
(* What the claims speak of, read off the request and the outputs.         *)
(***************************************************************************)
\* the request's task with row label idx
InputTask(idx) == data.tasks[idx + 1]
TaskLabels == {i - 1 : i \in 1..Len(data.tasks)}

HasDue(d) == "Due Date" \in DOMAIN d /\ to_datetime(d["Due Date"]) # NaT
DueOf(d) == to_datetime(d["Due Date"])

\* positions of the allocations emitted for the task / carrying the date
AllocsOfTask(idx) == {i \in 1..Len(scheduled_tasks) : alloc_log[i].task = idx}
AllocsOnDate(date) == {i \in 1..Len(scheduled_tasks) : scheduled_tasks[i].Date = date}

RECURSIVE HoursOfAllocs(_)
HoursOfAllocs(S) ==
    IF S = {} THEN 0
    ELSE LET i == CHOOSE x \in S : TRUE
         IN  scheduled_tasks[i].AllocatedHours + HoursOfAllocs(S \ {i})

RECURSIVE HoursOfWindows(_)
HoursOfWindows(S) ==
    IF S = {} THEN 0
    ELSE LET i == CHOOSE x \in S : TRUE
         IN  data.freeTime[i]["Available Hours"] + HoursOfWindows(S \ {i})

WindowsOnDate(date) == {i \in 1..Len(data.freeTime) : data.freeTime[i]["Date"] = date}
WindowsUpTo(ts) ==
    {i \in 1..Len(data.freeTime) : to_datetime(data.freeTime[i]["Date"]) <= ts}
WindowsAfter(ts) ==
    {i \in 1..Len(data.freeTime) : to_datetime(data.freeTime[i]["Date"]) > ts}

CapacitiesNonNegative ==
    \A i \in 1..Len(data.freeTime) : data.freeTime[i]["Available Hours"] >= 0

CalendarDates == {Calendar[d] : d \in 1..Len(Calendar)}

\* C1: no allocation of a task that has a due date is dated after that due date
C1_NoAllocationAfterDue ==
    \A i \in 1..Len(scheduled_tasks) :
        LET d == InputTask(alloc_log[i].task)
        IN  HasDue(d) => to_datetime(scheduled_tasks[i].Date) <= DueOf(d)

\* a finished run where a task with a due date got hours, was left short, and a
\* window with capacity lay after its due date
C1_Witness ==
    /\ pc = "done"
    /\ \E idx \in TaskLabels :
          /\ HasDue(InputTask(idx))
          /\ AllocsOfTask(idx) # {}
          /\ HoursOfAllocs(AllocsOfTask(idx)) < InputTask(idx)["Estimated Time"]
          /\ \E i \in WindowsAfter(DueOf(InputTask(idx))) :
                data.freeTime[i]["Available Hours"] > 0

\* C2: with non-negative capacities, the hours allocated on a date never exceed
\* the original capacity of the windows of that date
C2_CapacityNeverOversold ==
    CapacitiesNonNegative =>
        \A date \in CalendarDates :
            HoursOfAllocs(AllocsOnDate(date)) <= HoursOfWindows(WindowsOnDate(date))

\* a finished run where two tasks share two windows of one date and use them up
C2_Witness ==
    /\ pc = "done"
    /\ \E date \in CalendarDates :
          /\ Cardinality(WindowsOnDate(date)) = 2
          /\ Cardinality({alloc_log[i].task : i \in AllocsOnDate(date)}) = 2
          /\ HoursOfAllocs(AllocsOnDate(date)) = HoursOfWindows(WindowsOnDate(date))

\* C3: a task's allocated hours never exceed its estimated hours nor, when it has
\* a due date, the original capacity of the windows dated up to that due date
C3_TaskTotalBounded ==
    (~Empty(data.tasks) /\ ~Empty(data.freeTime)) =>
        \A idx \in TaskLabels :
            LET d == InputTask(idx)
                total == HoursOfAllocs(AllocsOfTask(idx))
            IN  /\ total <= d["Estimated Time"]
                /\ HasDue(d) => total <= HoursOfWindows(WindowsUpTo(DueOf(d)))

\* a finished run where one task got all its hours out of a larger window and
\* another, with a due date, got exactly the capacity left up to its due date
C3_Witness ==
    /\ pc = "done"
    /\ \E a, b \in TaskLabels :
          /\ a # b
          /\ HoursOfAllocs(AllocsOfTask(a)) = InputTask(a)["Estimated Time"]
          /\ HasDue(InputTask(b))
          /\ HoursOfAllocs(AllocsOfTask(b)) > 0
          /\ HoursOfAllocs(AllocsOfTask(b)) < InputTask(b)["Estimated Time"]
          /\ HoursOfAllocs(AllocsOfTask(a)) + HoursOfAllocs(AllocsOfTask(b))
                = HoursOfWindows(WindowsUpTo(DueOf(InputTask(b))))


\* C4: the same request scheduled again yields the same response
C4_SameRequestSameResponse ==
    (run > 1 /\ pc = "done") => response = prev_response

\* a second run that ended with allocations, a daily summary and warnings
C4_Witness ==
    /\ run = 2 /\ pc = "done"
    /\ "dailySummary" \in DOMAIN response
    /\ Len(response.scheduledTasks) > 1
    /\ Len(response.warnings) > 1
    /\ Len(response.largeTasks) > 0

\* C5: with an empty task list or an empty window list the run goes straight to
\* its response, which is exactly the fixed warning with empty results and no
\* totals or summary; nothing is detected or allocated
C5_EmptyInputExitsEarly ==
    (Len(data.tasks) = 0 \/ Len(data.freeTime) = 0) =>
        /\ pc \in {"request", "done"}
        /\ pc = "done" =>
              /\ response =
                    [scheduledTasks |-> <<>>,
                     warnings |-> << [kind |-> "No tasks or free time available for scheduling."] >>,
                     largeTasks |-> <<>>]
              /\ scheduled_tasks = <<>>
              /\ large_tasks = <<>>
              /\ warnings = <<>>

\* an early exit on a request with no windows and a task over 6 hours
C5_Witness ==
    /\ pc = "done"
    /\ Len(data.freeTime) = 0
    /\ \E idx \in TaskLabels :
          /\ InputTask(idx)["Estimated Time"] > 6
          /\ InputTask(idx)["Task"] = <<"A">>

HandleWarningsOf(idx) ==
    {k \in 1..Len(warnings) : warnings[k].kind = "HANDLE" /\ warn_log[k] = idx}

\* C6: once the walks are over, a task has a HANDLE warning (exactly one) if and
\* only if it has a due date and hours left over; the warning reports the hours
\* allocated to the task; during a walk the remaining hours are the estimate
\* minus the hours allocated so far
C6_ShortfallWarningIff ==
    (Len(data.tasks) > 0 /\ Len(data.freeTime) > 0) =>
        /\ pc = "walk" =>
              task_time_remaining =
                 InputTask(tasks_df[t]["idx"])["Estimated Time"]
                    - HoursOfAllocs(AllocsOfTask(tasks_df[t]["idx"]))
        /\ pc \in {"summary", "done"} =>
              \A idx \in TaskLabels :
                 LET d == InputTask(idx)
                     total == HoursOfAllocs(AllocsOfTask(idx))
                     hw == HandleWarningsOf(idx)
                 IN  /\ (hw # {}) <=> (HasDue(d) /\ d["Estimated Time"] - total > 0)
                     /\ Cardinality(hw) <= 1
                     /\ \A k \in hw : /\ warnings[k].scheduled = total
                                      /\ warnings[k].needs = d["Estimated Time"]
                                      /\ warnings[k].Due = d["Due Date"]

\* a finished run with a task due before every window, warned with 0 hours
\* scheduled, and a task without due date left partly unscheduled and not warned
C6_Witness ==
    /\ pc = "done"
    /\ Len(data.freeTime) > 0
    /\ \E a, b \in TaskLabels :
          /\ HasDue(InputTask(a))
          /\ WindowsUpTo(DueOf(InputTask(a))) = {}
          /\ \E k \in HandleWarningsOf(a) : warnings[k].scheduled = 0
          /\ AllocsOfTask(a) = {}
          /\ ~HasDue(InputTask(b))
          /\ HoursOfAllocs(AllocsOfTask(b)) \in 1..(InputTask(b)["Estimated Time"] - 1)
          /\ HandleWarningsOf(b) = {}

LargeEntriesOf(idx) == {k \in 1..Len(large_tasks) : large_tasks[k].id = idx}
LargeWarningsOf(idx) ==
    {k \in 1..Len(warnings) : warnings[k].kind = "exceeds 6 hours" /\ warn_log[k] = idx}

Untagged(name) ==
    \A i \in 1..Len(name) :
        name[i] \notin {"[MULTI-SESSION]", "[FIXED EVENT]", "[PENDING PLANNING]"}

\* C8: in a run on non-empty lists, a task has one largeTasks entry and one
\* exceeds-6-hours warning if its hours are over 6 and its name carries no
\* marker, and none otherwise
C8_LargeTaskIff ==
    (Len(data.tasks) > 0 /\ Len(data.freeTime) > 0 /\ pc # "request") =>
        \A idx \in TaskLabels :
            LET d == InputTask(idx)
                n == IF d["Estimated Time"] > 6 /\ Untagged(d["Task"]) THEN 1 ELSE 0
            IN  /\ Cardinality(LargeEntriesOf(idx)) = n
                /\ Cardinality(LargeWarningsOf(idx)) = n
                /\ \A k \in LargeEntriesOf(idx) :
                      /\ large_tasks[k].Task = d["Task"]
                      /\ large_tasks[k].EstimatedTime = d["Estimated Time"]
                /\ \A k \in LargeWarningsOf(idx) : warnings[k].Task = d["Task"]

\* a finished run that flags a 7-hour task due before every window (nothing
\* allocated to it) and does not flag a 6-hour task
C8_Witness ==
    /\ pc = "done"
    /\ \E a, b \in TaskLabels :
          /\ LargeEntriesOf(a) # {}
          /\ HasDue(InputTask(a))
          /\ AllocsOfTask(a) = {}
          /\ HandleWarningsOf(a) # {}
          /\ InputTask(b)["Estimated Time"] = 6
          /\ InputTask(b)["Task"] = <<"A">>
          /\ LargeEntriesOf(b) = {}


(***************************************************************************)
(* C7.  The order the claim gives: priorityScore = daysUntilDue minus 5     *)
(* times importance, daysUntilDue = 9999 without a due date, then          *)
(* complexity.                                                             *)
(***************************************************************************)
ClaimScore(d) ==
    (IF HasDue(d) THEN DueOf(d) - today ELSE 9999) - 5 * d["Importance"]

SortsStrictlyBefore(a, b) ==
    \/ ClaimScore(a) < ClaimScore(b)
    \/ ClaimScore(a) = ClaimScore(b) /\ a["Complexity"] < b["Complexity"]

\* the entries [window, hours] of the task in a list of [task, window, hours]
RECURSIVE EntriesOf(_, _)
EntriesOf(log, idx) ==
    IF log = <<>> THEN <<>>
    ELSE (IF Head(log).task = idx
          THEN << [window |-> Head(log).window, hours |-> Head(log).hours] >>
          ELSE <<>>) \o EntriesOf(Tail(log), idx)

\* what the run allocated, as [task, window, hours]
RunLog ==
    [i \in 1..Len(scheduled_tasks) |->
        [task |-> alloc_log[i].task, window |-> alloc_log[i].window,
         hours |-> scheduled_tasks[i].AllocatedHours]]

\* the windows as the allocator first sees them
SortedWindows ==
    sort_values(ConvertDates(DataFrame(data.freeTime), Columns(data.freeTime), "Date"),
                <<"Date">>)

\* the ranked tasks without the task b
RankedWithout(b) ==
    SelectRows(tasks_df, {tasks_df[i]["idx"] : i \in 1..Len(tasks_df)} \ {b})

\* A's allocations all come before B's, and are those of a run without B
ServedBefore(a, b) ==
    /\ \A i \in AllocsOfTask(a) : \A j \in AllocsOfTask(b) : i < j
    /\ EntriesOf(RunLog, a)
          = EntriesOf(AllocateAll(RankedWithout(b), tasks_cols, SortedWindows), a)

WalksOver == pc \in {"summary", "done"} /\ Len(data.tasks) > 0 /\ Len(data.freeTime) > 0

RequestIsRanked ==
    /\ \E i \in 1..Len(data.tasks) : "Due Date" \in DOMAIN data.tasks[i]
    /\ \E i \in 1..Len(data.tasks) : "Importance" \in DOMAIN data.tasks[i]

\* C7 as stated: whenever A sorts strictly before B by (priorityScore,
\* complexity), A is served before B
C7_Original ==
    WalksOver =>
        \A a, b \in TaskLabels :
            SortsStrictlyBefore(InputTask(a), InputTask(b)) => ServedBefore(a, b)

\* C7 amended: when the request carries the Due Date and Importance columns (the
\* ranker runs), a task that sorts strictly before another by (priorityScore,
\* complexity) has all its allocations emitted first, and they are the
\* allocations it gets with the other task removed from the ranked list
C7_RankedOrderServedFirst ==
    (WalksOver /\ RequestIsRanked) =>
        \A a, b \in TaskLabels :
            SortsStrictlyBefore(InputTask(a), InputTask(b)) => ServedBefore(a, b)

\* a finished ranked run, equal importance and scarce windows: the sooner-due
\* task, second in the request, is served in full and the other gets the rest
C7_Witness ==
    /\ pc = "done"
    /\ RequestIsRanked
    /\ Len(data.tasks) = 2
    /\ HasDue(InputTask(0)) /\ HasDue(InputTask(1))
    /\ DueOf(InputTask(1)) < DueOf(InputTask(0))
    /\ InputTask(0)["Importance"] = InputTask(1)["Importance"]
    /\ SortsStrictlyBefore(InputTask(1), InputTask(0))
    /\ HoursOfAllocs(AllocsOfTask(1)) = InputTask(1)["Estimated Time"]
    /\ HoursOfAllocs(AllocsOfTask(0)) \in 1..(InputTask(0)["Estimated Time"] - 1)


(***************************************************************************)
(* C9, C10.  The last call of breakdown_task, read off its request, the    *)
(* file it found and the file it left.                                     *)
(***************************************************************************)
StoredList(file) == IF file.exists THEN file.rows ELSE <<>>

Called == request.approach # "none"

OutOfRange ==
    request.taskId >= Len(StoredList(file_before)) \/ request.taskId < 0

FailureCase ==
    \/ request.approach \notin {"planning", "breakdown", "focus", "iterative", "fixed"}
    \/ request.approach = "breakdown" /\ Get(request.params, "subtasks", <<>>) = <<>>
    \/ OutOfRange

ListUnchanged == StoredList(tasks_file) = StoredList(file_before)

\* C9: a call with an invalid approach, with approach breakdown and no subtasks,
\* or with a task id out of range leaves the stored task list as it was
C9_FailureLeavesListUnchanged ==
    (Called /\ FailureCase) => ListUnchanged

\* C10: a call with a task id at or above the length of the list, or below 0,
\* fails with the not-found error and leaves the stored list as it was
C10_OutOfRangeIsNotFound ==
    (Called /\ OutOfRange) =>
        /\ status = [status |-> "error", message |-> "Task not found"]
        /\ ListUnchanged

\* what does hold of the code: a call that does not answer success saves nothing,
\* and a task id at or above the length of the list is answered not found
ErrorResponseLeavesList ==
    (Called /\ status.status # "success") => ListUnchanged

IdAtOrAboveLengthIsNotFound ==
    (Called /\ request.taskId >= Len(StoredList(file_before))) =>
        /\ status = [status |-> "error", message |-> "Task not found"]
        /\ ListUnchanged

(***************************************************************************)
(* C11.  The last call of breakdown_task and the run of run_scheduler on   *)
(* the list it left.                                                       *)
(***************************************************************************)
Succeeded == Called /\ status = [status |-> "success"]

\* the call names a task of the list it found
TargetInList == request.taskId \in 0..(Len(StoredList(file_before)) - 1)

\* planning, or focus or fixed with the rename left at its default
DefaultRename ==
    \/ request.approach = "planning"
    \/ /\ request.approach \in {"focus", "fixed"}
       /\ "newName" \notin DOMAIN request.params
       /\ "updateName" \notin DOMAIN request.params

ScheduledAfter == pc \in {"walk", "summary", "done"}

\* C11: after a successful call with approach planning, or focus or fixed with
\* the default rename, on a task of the list, a run of the scheduler on the
\* resulting list has no largeTasks entry and no exceeds-6-hours warning for
\* that task
C11_RestructuredTaskNotLarge ==
    (Succeeded /\ TargetInList /\ DefaultRename /\ ScheduledAfter) =>
        /\ LargeEntriesOf(request.taskId) = {}
        /\ LargeWarningsOf(request.taskId) = {}
        /\ pc = "done" =>
              \A k \in 1..Len(response.largeTasks) :
                  response.largeTasks[k].id # request.taskId

\* a finished run on windows after such a call on an 8-hour task, where another
\* 8-hour task of the list is reported
C11_Witness ==
    /\ Succeeded /\ TargetInList /\ DefaultRename
    /\ pc = "done"
    /\ Len(data.freeTime) > 0
    /\ StoredList(file_before)[request.taskId + 1]["Estimated Time"] > 6
    /\ data.tasks[request.taskId + 1]["Estimated Time"] > 6
    /\ \E k \in 1..Len(response.largeTasks) :
          response.largeTasks[k].id # request.taskId

(***************************************************************************)
(* C12.  The hours of the stored list.                                     *)
(***************************************************************************)
HoursNonNegative(list) ==
    \A i \in 1..Len(list) : list[i]["Estimated Time"] >= 0

\* the hours the last call gives are not negative, and the exploration hours
\* of an iterative call are not more than the hours of its task
HoursWellGiven ==
    LET target == StoredList(file_before)[request.taskId + 1]
        subtasks == Get(request.params, "subtasks", <<>>)
        exploration == Get(request.params, "explorationHours", 2)
    IN  /\ request.approach = "planning" => Get(request.params, "hours", 1) >= 0
        /\ request.approach = "breakdown" =>
              \A i \in 1..Len(subtasks) : subtasks[i].hours >= 0
        /\ request.approach = "iterative" =>
              exploration >= 0 /\ exploration <= target["Estimated Time"]

\* C12 as stated: the stored list starts with every hours >= 0, and after any
\* calls every task of the list has hours >= 0
C12_Original == HoursNonNegative(StoredList(tasks_file))

\* C12 amended: a successful call on a list whose hours are all >= 0, naming a
\* task of the list and giving hours that are not negative and exploration
\* hours not above the task's hours, leaves a list whose hours are all >= 0;
\* the '[REMAINING WORK]' task of an iterative call is the last of the list and
\* has the task's hours less the exploration hours, zero or more
C12_HoursStayNonNegative ==
    (Succeeded /\ TargetInList /\ HoursNonNegative(StoredList(file_before))
        /\ HoursWellGiven) =>
        /\ HoursNonNegative(StoredList(tasks_file))
        /\ request.approach = "iterative" =>
              LET last == StoredList(tasks_file)[Len(StoredList(tasks_file))]
                  target == StoredList(file_before)[request.taskId + 1]
              IN  /\ last["Task"] = target["Task"] \o <<"[REMAINING WORK]">>
                  /\ last["Estimated Time"] =
                        target["Estimated Time"]
                           - Get(request.params, "explorationHours", 2)
                  /\ last["Estimated Time"] >= 0

\* a second successful call, iterative, whose exploration hours are all the
\* hours of its task: the remaining work is 0 hours
C12_Witness ==
    /\ ops = 2
    /\ Succeeded /\ TargetInList /\ HoursNonNegative(StoredList(file_before))
    /\ HoursWellGiven
    /\ request.approach = "iterative"
    /\ StoredList(tasks_file)[Len(StoredList(tasks_file))]["Estimated Time"] = 0
    /\ Len(StoredList(file_before)) > MaxTasks

(***************************************************************************)
(* C13.  The working windows during the allocation loop.                   *)
(***************************************************************************)
WindowHours(df) == [i \in 1..Len(df) |-> df[i]["Available Hours"]]

WorkingHoursNonNegative ==
    \A i \in 1..Len(working_free_time_df) :
        working_free_time_df[i]["Available Hours"] >= 0

\* a step of the loop: no window's hours go up, at most one window changes,
\* and a step that emits an allocation takes min(remaining, availableHours)
\* from the window it is at and leaves the others as they were
WindowsOnlyConsumed ==
    (pc \in {"walk", "summary"} /\ CapacitiesNonNegative) =>
        LET before == WindowHours(working_free_time_df)
            after == WindowHours(working_free_time_df')
            changed == {i \in 1..Len(before) : after[i] # before[i]}
            taken == IF task_time_remaining < before[w]
                     THEN task_time_remaining ELSE before[w]
        IN  /\ Len(after) = Len(before)
            /\ \A i \in 1..Len(before) :
                  /\ after[i] <= before[i]
                  /\ working_free_time_df'[i]["Date"] = working_free_time_df[i]["Date"]
                  /\ working_free_time_df'[i]["idx"] = working_free_time_df[i]["idx"]
            /\ IF scheduled_tasks' # scheduled_tasks
               THEN /\ changed = {w}
                    /\ after[w] = before[w] - taken
                    /\ scheduled_tasks' =
                          Append(scheduled_tasks,
                                 [Task |-> tasks_df[t]["Task"],
                                  Date |-> Calendar[working_free_time_df[w]["Date"]],
                                  AllocatedHours |-> taken])
               ELSE changed = {}

\* C13: for windows that all start with availableHours >= 0, every working
\* window's availableHours is >= 0 in every state of the run, and every step
\* of the allocation loop leaves the windows as they are or, when it emits an
\* allocation, takes min(remaining, availableHours) from exactly one window
C13_WindowsNeverNegativeNorGrow ==
    /\ [](CapacitiesNonNegative => WorkingHoursNonNegative)
    /\ [][WindowsOnlyConsumed]_vars

\* in the loop, after two allocations: a window that held 3 hours is empty, one
\* task having taken 2 of them and the next the last one, and another window
\* still holds its 3 hours
C13_Witness ==
    /\ pc = "walk"
    /\ Len(scheduled_tasks) = 2
    /\ scheduled_tasks[1].AllocatedHours = 2
    /\ scheduled_tasks[2].AllocatedHours = 1
    /\ alloc_log[1].window = alloc_log[2].window
    /\ alloc_log[1].task # alloc_log[2].task
    /\ \E i, j \in 1..Len(working_free_time_df) :
          /\ working_free_time_df[i]["Available Hours"] = 0
          /\ working_free_time_df[i]["idx"] = alloc_log[1].window
          /\ working_free_time_df[j]["Available Hours"] = 3

(***************************************************************************)
(* C14.  Tasks of the request that lack the duration or the name.          *)
(***************************************************************************)
LacksField(d) == "Estimated Time" \notin DOMAIN d \/ "Task" \notin DOMAIN d

RemoveAt(s, i) == [k \in 1..(Len(s) - 1) |-> IF k < i THEN s[k] ELSE s[k + 1]]

\* what the allocator gives a list of tasks on the request's windows
ScheduleOf(tasks) ==
    LET cols == Columns(tasks)
        df == ConvertDates(DataFrame(tasks), cols, "Due Date")
    IN  AllocateAll(Prioritize(df, cols, today), cols, SortedWindows)

\* C14: a task without a duration or without a name gets no allocation, no
\* warning and no largeTasks entry, and every other task gets the allocations
\* it gets when the request is scheduled without that task
C14_MissingFieldsSkipped ==
    WalksOver =>
        \A idx \in TaskLabels :
            LacksField(InputTask(idx)) =>
                /\ AllocsOfTask(idx) = {}
                /\ \A k \in 1..Len(warnings) : warn_log[k] # idx
                /\ LargeEntriesOf(idx) = {}
                /\ \A b \in TaskLabels \ {idx} :
                      EntriesOf(RunLog, b)
                         = EntriesOf(ScheduleOf(RemoveAt(data.tasks, idx + 1)),
                                     IF b < idx THEN b ELSE b - 1)

\* what does hold of the code: when no task of the request carries a duration,
\* or none carries a name, nothing is allocated, reported or warned
ColumnAbsentSkipsAll ==
    (/\ WalksOver
     /\ \/ \A i \in 1..Len(data.tasks) : "Estimated Time" \notin DOMAIN data.tasks[i]
        \/ \A i \in 1..Len(data.tasks) : "Task" \notin DOMAIN data.tasks[i]) =>
        /\ scheduled_tasks = <<>>
        /\ warnings = <<>>
        /\ large_tasks = <<>>

(***************************************************************************)
(* C15.  The daily summary of the response.                                *)
(***************************************************************************)
Finished == pc = "done" /\ Len(data.tasks) > 0 /\ Len(data.freeTime) > 0

WindowDates == {data.freeTime[i]["Date"] : i \in 1..Len(data.freeTime)}

SummaryEntriesOf(date) ==
    {k \in 1..Len(response.dailySummary) : response.dailySummary[k].Date = date}

\* C15: the response of a run on non-empty lists has one dailySummary entry for
\* each date of the windows and no other entry, and the entry's totalScheduled
\* is the sum of the hours of the allocations that carry the date
C15_OneSummaryEntryPerDate ==
    Finished =>
        /\ \A k \in 1..Len(response.dailySummary) :
              response.dailySummary[k].Date \in WindowDates
        /\ \A date \in WindowDates :
              /\ Cardinality(SummaryEntriesOf(date)) = 1
              /\ \A k \in SummaryEntriesOf(date) :
                    response.dailySummary[k].TotalScheduled
                       = HoursOfAllocs(AllocsOnDate(date))

\* a finished run with two windows of one date, both drawn on, by two tasks
C15_Witness ==
    /\ Finished
    /\ Len(data.freeTime) = 2
    /\ Cardinality(WindowDates) = 1
    /\ Len(response.dailySummary) = 1
    /\ Cardinality({alloc_log[i].window : i \in 1..Len(alloc_log)}) = 2
    /\ Cardinality({alloc_log[i].task : i \in 1..Len(alloc_log)}) = 2
    /\ response.dailySummary[1].TotalScheduled > 3

(***************************************************************************)
(* C16.  The stored list before and after the last call.                   *)
(***************************************************************************)
Before == StoredList(file_before)
After == StoredList(tasks_file)
Target == request.taskId + 1

\* the task's project, name, hours, due date, importance and complexity
TaskFields(row) ==
    [c \in {"Project", "Task", "Estimated Time", "Due Date", "Importance", "Complexity"}
        |-> row[c]]

\* the row has the task's fields and nothing set in any field it has more
SameTask(row, task) ==
    /\ TaskFields(row) = TaskFields(task)
    /\ \A c \in DOMAIN task : row[c] = task[c]
    /\ \A c \in DOMAIN row \ DOMAIN task : row[c] = Missing(c)

\* the tasks but the target are, in order, the first of the list after
OthersMovedUp ==
    \A i \in 1..(Len(Before) - 1) : SameTask(After[i], RemoveAt(Before, Target)[i])

\* the tasks but the target are where they were
OthersInPlace ==
    \A i \in 1..Len(Before) : i # Target => SameTask(After[i], Before[i])

\* the row is the target but for the fields in changed
CopiesTarget(row, changed) ==
    \A c \in DOMAIN TaskFields(row) \ changed : row[c] = Before[Target][c]

\* C16: a successful call on a task of the list leaves every other task with
\* its fields, in the same order.  planning: the target stays where it was,
\* renamed with '[PENDING PLANNING]', hours unchanged, and one task of
\* importance 4 and complexity 2 is added at the end.  breakdown: the target is
\* removed and one task per subtask is added at the end, with the subtask's
\* name and hours and the target's project, due date, importance and
\* complexity.  iterative: the target is removed and two tasks are added.
\* focus, fixed: the list keeps its length and the target changes in its name
\* and its metadata fields only.
C16_RestructureFrame ==
    (Succeeded /\ TargetInList) =>
        LET n == Len(Before)
            subtasks == Get(request.params, "subtasks", <<>>)
        IN  CASE request.approach = "planning" ->
                    /\ Len(After) = n + 1
                    /\ OthersInPlace
                    /\ CopiesTarget(After[Target], {"Task"})
                    /\ After[Target]["Task"]
                          = Before[Target]["Task"] \o <<"[PENDING PLANNING]">>
                    /\ After[n + 1]["Importance"] = 4
                    /\ After[n + 1]["Complexity"] = 2
              [] request.approach = "breakdown" ->
                    /\ Len(After) = n + Len(subtasks) - 1
                    /\ OthersMovedUp
                    /\ \A j \in 1..Len(subtasks) :
                          /\ CopiesTarget(After[n - 1 + j], {"Task", "Estimated Time"})
                          /\ After[n - 1 + j]["Task"] = subtasks[j].name
                          /\ After[n - 1 + j]["Estimated Time"] = subtasks[j].hours
              [] request.approach = "iterative" ->
                    /\ Len(After) = n + 1
                    /\ OthersMovedUp
                    /\ \A j \in 1..2 :
                          CopiesTarget(After[n - 1 + j],
                                       {"Project", "Task", "Estimated Time"})
              [] request.approach \in {"focus", "fixed"} ->
                    /\ Len(After) = n
                    /\ OthersInPlace
                    /\ CopiesTarget(After[Target], {"Task"})
              [] OTHER -> FALSE

\* a breakdown of the first of two tasks into two subtasks: the second task is
\* now the first, followed by the two subtasks
C16_Witness ==
    /\ Succeeded /\ TargetInList
    /\ request.approach = "breakdown"
    /\ Target = 1
    /\ Len(Before) = 2
    /\ Before[1]["Task"] # Before[2]["Task"]
    /\ Len(After) = 3
    /\ After[1]["Task"] = Before[2]["Task"]
    /\ After[3]["Due Date"] = Before[1]["Due Date"]

(***************************************************************************)
(* C17.  Ties of the ranking, and requests the ranker leaves alone.        *)
(***************************************************************************)
Ties(a, b) ==
    /\ ClaimScore(a) = ClaimScore(b)
    /\ a["Complexity"] = b["Complexity"]

\* C17: of two tasks of a ranked request that tie on priorityScore and on
\* complexity, and of any two tasks of a request the ranker does not run on,
\* the one that comes first in the request has its allocations emitted first,
\* and they are the allocations it gets without the other task
C17_TiesKeepInputOrder ==
    WalksOver =>
        \A a, b \in TaskLabels :
            (a < b /\ (~RequestIsRanked \/ Ties(InputTask(a), InputTask(b)))) =>
                ServedBefore(a, b)

\* a finished ranked run: the first task, due later than the second, ties with
\* it and takes its hours from the one window, the second gets the rest
C17_Witness ==
    /\ pc = "done"
    /\ RequestIsRanked
    /\ Len(data.tasks) = 2
    /\ HasDue(InputTask(0)) /\ HasDue(InputTask(1))
    /\ DueOf(InputTask(0)) > DueOf(InputTask(1))
    /\ Ties(InputTask(0), InputTask(1))
    /\ HoursOfAllocs(AllocsOfTask(0)) = InputTask(0)["Estimated Time"]
    /\ HoursOfAllocs(AllocsOfTask(1)) \in 1..(InputTask(1)["Estimated Time"] - 1)

\* a finished run the ranker did not run on: the second task is the more
\* important, and the first takes the window
InputOrderWithoutRanker ==
    /\ pc = "done"
    /\ ~RequestIsRanked
    /\ Len(data.tasks) = 2
    /\ InputTask(0)["Importance"] < InputTask(1)["Importance"]
    /\ HoursOfAllocs(AllocsOfTask(0)) > 0
    /\ HoursOfAllocs(AllocsOfTask(1)) = 0

(***************************************************************************)
(* C18.  Two calls of breakdown_task on one stored list, and a schedule.   *)
(***************************************************************************)
\* the file after one whole call on it
FileAfterCall(file, req) ==
    LET result == Restructure(load_data(file), req.taskId, req.approach, req.params)
    IN  IF result.saved THEN to_csv(result.df) ELSE FileAfterLoad(file)

OneAfterTheOther(p, q) ==
    FileAfterCall(FileAfterCall(RaceFile, calls[p].request), calls[q].request)

BothDone == \A p \in Invocations : calls[p].pc = "done"

\* the stored list is what the two calls leave when run one after the other
StoredAsInSomeOrder ==
    BothDone =>
        \/ StoredList(tasks_file) = StoredList(OneAfterTheOther("first", "second"))
        \/ StoredList(tasks_file) = StoredList(OneAfterTheOther("second", "first"))

\* the schedule run while the calls run answers as the one run before them
ScheduleAsWhenAlone == (run > 1 /\ pc = "done") => response = prev_response

\* C18: when two calls of breakdown_task on the same stored list take their
\* load, restructure and save steps in any order, the list stored in the end is
\* the one they leave when run one after the other, in one order or the other,
\* and a schedule run meanwhile answers as when run alone
C18_InterleavedCallsSerializable ==
    /\ StoredAsInSomeOrder
    /\ ScheduleAsWhenAlone

\* what does hold of the code: when both calls save and the stored list is not
\* that of the two calls in either order, it is the list one of the calls
\* leaves on its own, the other call's change being overwritten
OtherwiseOneCallOverwritten ==
    \A p, q \in Invocations :
        (/\ p # q /\ BothDone
         /\ calls[p].saves /\ calls[q].saves
         /\ StoredList(tasks_file) # StoredList(OneAfterTheOther(p, q))
         /\ StoredList(tasks_file) # StoredList(OneAfterTheOther(q, p))) =>
            StoredList(tasks_file) \in
                { StoredList(FileAfterCall(RaceFile, calls[p].request)),
                  StoredList(FileAfterCall(RaceFile, calls[q].request)) }

(***************************************************************************)
(* C19.  The windows a task may use, when its walk ends and when the run   *)
(* ends.                                                                   *)
(***************************************************************************)
\* the working windows dated on or before the task's due date, all of them when
\* the task has no due date
EligibleWindows(d) ==
    {i \in 1..Len(working_free_time_df) :
        HasDue(d) => working_free_time_df[i]["Date"] <= DueOf(d)}

NoEligibleHoursLeft(d) ==
    \A i \in EligibleWindows(d) : working_free_time_df[i]["Available Hours"] = 0

\* the walk of the current task has ended: the loop is about to leave it
WalkEnded ==
    /\ pc = "walk"
    /\ ~(/\ w <= Len(working_free_time_df)
         /\ task_time_remaining > 0
         /\ (HasDue(InputTask(tasks_df[t]["idx"])) =>
                working_free_time_df[w]["Date"] <= DueOf(InputTask(tasks_df[t]["idx"]))))

\* C19: when a task's walk ends with hours remaining, every window it may use
\* has 0 hours; during the walk every window already passed has 0 hours while
\* the task still needs hours; each task's allocations are in ascending order
\* of date; and at the end of the run a task that was not given all its hours
\* has no window it may use with hours left
C19_WorkConserving ==
    /\ (WalkEnded /\ task_time_remaining > 0) =>
            NoEligibleHoursLeft(InputTask(tasks_df[t]["idx"]))
    /\ (pc = "walk" /\ task_time_remaining > 0) =>
            \A k \in 1..(w - 1) : working_free_time_df[k]["Available Hours"] = 0
    /\ \A i, j \in 1..Len(scheduled_tasks) :
            (i < j /\ alloc_log[i].task = alloc_log[j].task) =>
                to_datetime(scheduled_tasks[i].Date) <= to_datetime(scheduled_tasks[j].Date)
    /\ WalksOver =>
            \A idx \in TaskLabels :
                HoursOfAllocs(AllocsOfTask(idx)) < InputTask(idx)["Estimated Time"] =>
                    NoEligibleHoursLeft(InputTask(idx))

\* the walk of a task without due date has ended with hours remaining, after
\* it took the hours another task had left in the first window and all the
\* hours of the second window, of another date
C19_Witness ==
    /\ WalkEnded
    /\ task_time_remaining > 0
    /\ ~HasDue(InputTask(tasks_df[t]["idx"]))
    /\ Len(working_free_time_df) = 2
    /\ Cardinality(AllocsOfTask(tasks_df[t]["idx"])) = 2
    /\ Len(scheduled_tasks) = 3
    /\ scheduled_tasks[2].Date # scheduled_tasks[3].Date

(***************************************************************************)
(* C20.  The hours of each date: left in the working windows, allocated,   *)
(* and in the request.                                                     *)
(***************************************************************************)
RECURSIVE SumOver(_, _)
SumOver(f, S) ==
    IF S = {} THEN 0
    ELSE LET i == CHOOSE x \in S : TRUE
         IN  f[i] + SumOver(f, S \ {i})

WorkingHoursOn(date) ==
    SumOver(WindowHours(working_free_time_df),
            {i \in 1..Len(working_free_time_df) :
                Calendar[working_free_time_df[i]["Date"]] = date})

\* the dates of the request's windows and of the allocations
DatesInPlay ==
    WindowDates \cup {scheduled_tasks[i].Date : i \in 1..Len(scheduled_tasks)}

SummaryTotals ==
    [k \in 1..Len(response.dailySummary) |->
        response.dailySummary[k].TotalAvailable + response.dailySummary[k].TotalScheduled]

\* C20: in the allocation loop and after it, for each date the hours left in
\* the working windows of the date plus the hours of the allocations of the
\* date are the hours the request's windows of the date had; in the response,
\* each dailySummary entry's totalAvailable + totalScheduled is the hours the
\* request gave the date, and totalFreeTime is the sum of these over the entries
C20_HoursConservedPerDate ==
    /\ (pc \in {"walk", "summary", "done"} /\ Len(data.tasks) > 0 /\ Len(data.freeTime) > 0) =>
            \A date \in DatesInPlay :
                WorkingHoursOn(date) + HoursOfAllocs(AllocsOnDate(date))
                    = HoursOfWindows(WindowsOnDate(date))
    /\ Finished =>
            /\ \A k \in 1..Len(response.dailySummary) :
                  SummaryTotals[k]
                     = HoursOfWindows(WindowsOnDate(response.dailySummary[k].Date))
            /\ response.totalFreeTime
                  = SumOver(SummaryTotals, 1..Len(response.dailySummary))

\* a finished run on windows of two dates: one date has hours left and hours
\* scheduled, the other is used up, and a task is left short
C20_Witness ==
    /\ Finished
    /\ Len(response.dailySummary) = 2
    /\ \E j, k \in 1..2 :
          /\ response.dailySummary[j].TotalAvailable = 0
          /\ response.dailySummary[j].TotalScheduled = 3
          /\ response.dailySummary[k].TotalAvailable > 0
          /\ response.dailySummary[k].TotalScheduled > 0
    /\ response.totalFreeTime = 6
    /\ Len(response.warnings) > 0

=============================================================================
